---- MODULE Spec2Model ----
(***************************************************************************)
(* chistaticmiddleware: a Chi middleware that serves the requests whose    *)
(* URL path starts with Config.StaticFilePrefix from fs.Sub(StaticFS,      *)
(* StaticRoot) through http.StripPrefix + http.FileServer, and hands every *)
(* other request to the next handler (src/static.go).                      *)
(*                                                                         *)
(* Strings that the code inspects byte by byte (URL paths, the prefix, the *)
(* root, file names) are sequences of one-character strings.  A file       *)
(* system is the set of the names of its regular files, directories being  *)
(* the proper prefixes of those names (as testing/fstest.MapFS, which the  *)
(* repository's tests use).  A time.Duration d is the pair                 *)
(* [sec |-> d / time.Second, nsec |-> d % time.Second] that                *)
(* Duration.Seconds itself splits d into.                                  *)
(***************************************************************************)
EXTENDS Integers, Sequences, FiniteSets, TLC

(***************************************************************************)
(* Bounds of the model.                                                    *)
(***************************************************************************)
\* Requests handled one after the other in a behaviour of Spec.
MaxRequests == 2
\* Requests in flight at the same time in a behaviour of SpecConc.
NumReq == 2

(***************************************************************************)
(* strings, path and io/fs helpers used by the handler                     *)
(***************************************************************************)
\* strings.HasPrefix(s, prefix)
HasPrefix(s, prefix) ==
    /\ Len(prefix) <= Len(s)
    /\ SubSeq(s, 1, Len(prefix)) = prefix

\* strings.HasSuffix(s, suffix)
HasSuffix(s, suffix) ==
    /\ Len(suffix) <= Len(s)
    /\ SubSeq(s, Len(s) - Len(suffix) + 1, Len(s)) = suffix

\* strings.TrimPrefix(s, prefix)
TrimPrefix(s, prefix) ==
    IF HasPrefix(s, prefix) THEN SubSeq(s, Len(prefix) + 1, Len(s)) ELSE s

\* strings.TrimSuffix(s, suffix)
TrimSuffix(s, suffix) ==
    IF HasSuffix(s, suffix) THEN SubSeq(s, 1, Len(s) - Len(suffix)) ELSE s

\* The slash-separated elements of s, empty elements kept
\* ("a//b" has the elements "a", "", "b"; "" has the one element "").
RECURSIVE Elements(_)
Elements(s) ==
    IF \A i \in 1..Len(s) : s[i] # "/"
    THEN <<s>>
    ELSE LET i == CHOOSE k \in 1..Len(s) :
                      s[k] = "/" /\ \A j \in 1..(k - 1) : s[j] # "/"
         IN  <<SubSeq(s, 1, i - 1)>> \o Elements(SubSeq(s, i + 1, Len(s)))

\* The elements joined by "/".
RECURSIVE JoinElements(_)
JoinElements(es) ==
    IF es = <<>> THEN <<>>
    ELSE IF Len(es) = 1 THEN es[1]
    ELSE es[1] \o <<"/">> \o JoinElements(Tail(es))

\* io/fs.ValidPath(name): "." is valid; otherwise no element may be empty,
\* "." or ".." (so "", "./static", "/x" and "x/" are all invalid).
ValidPath(name) ==
    \/ name = <<".">>
    \/ \A i \in 1..Len(Elements(name)) :
          /\ Elements(name)[i] # <<>>
          /\ Elements(name)[i] # <<".">>
          /\ Elements(name)[i] # <<".", ".">>

\* The elements of a rooted path after path.Clean: empty and "." elements
\* dropped, ".." dropping the element before it (nothing at the root).
RECURSIVE CleanElements(_, _)
CleanElements(es, acc) ==
    IF es = <<>> THEN acc
    ELSE IF es[1] = <<>> \/ es[1] = <<".">> THEN CleanElements(Tail(es), acc)
    ELSE IF es[1] = <<".", ".">>
         THEN CleanElements(Tail(es),
                  IF acc = <<>> THEN acc ELSE SubSeq(acc, 1, Len(acc) - 1))
    ELSE CleanElements(Tail(es), Append(acc, es[1]))

\* path.Clean(p) of a rooted path p (p starts with "/").
Clean(p) == <<"/">> \o JoinElements(CleanElements(Elements(p), <<>>))

\* path.Base(p): the last element of p, trailing slashes removed;
\* "." for the empty path and "/" for a path of slashes only.
Base(p) ==
    LET es == CleanElements(Elements(p), <<>>)
    IN  IF p = <<>> THEN <<".">>
        ELSE IF es = <<>> THEN <<"/">>
        ELSE es[Len(es)]

\* path.Join(dir, name) for a valid dir (not ".") and a valid name.
Join(dir, name) == IF name = <<".">> THEN dir ELSE dir \o <<"/">> \o name

\* path/filepath.Ext(name): the suffix of the last element from its last dot.
Ext(name) ==
    LET b == Elements(name)[Len(Elements(name))]
    IN  IF \A i \in 1..Len(b) : b[i] # "."
        THEN <<>>
        ELSE LET i == CHOOSE k \in 1..Len(b) :
                          b[k] = "." /\ \A j \in (k + 1)..Len(b) : b[j] # "."
             IN  SubSeq(b, i, Len(b))

(***************************************************************************)
(* File systems (io/fs.FS).  A file system is the set of the names of its  *)
(* regular files; every proper directory prefix of a file name is a        *)
(* directory, and "." is the root directory.                               *)
(***************************************************************************)
IsFile(files, name) == name \in files

IsDir(files, name) ==
    \/ name = <<".">>
    \/ \E f \in files : HasPrefix(f, name \o <<"/">>)

\* fsys.Open(name) of the underlying file system: what the name opens as.
FsOpen(files, name) ==
    IF ~ValidPath(name) THEN "invalid"
    ELSE IF IsFile(files, name) THEN "file"
    ELSE IF IsDir(files, name) THEN "dir"
    ELSE "notexist"

\* err.Error() of the *fs.PathError that fs.Sub returns for an invalid dir:
\* "sub " + dir + ": invalid argument".
SubErrorText(dir) == <<"sub ">> \o dir \o <<": invalid argument">>

\* fs.Sub(fsys, dir): an error when dir is no valid path; fsys itself for
\* "."; otherwise the view of fsys under dir (dir need not exist).
Sub(files, dir) ==
    IF ~ValidPath(dir)
    THEN [ok |-> FALSE, files |-> {}, dir |-> dir, err |-> SubErrorText(dir)]
    ELSE [ok |-> TRUE, files |-> files, dir |-> dir, err |-> <<>>]

\* staticFS.Open(name) of the file system fs.Sub returned.
SubOpen(sub, name) ==
    IF sub.dir = <<".">> THEN FsOpen(sub.files, name)
    ELSE IF ~ValidPath(name) THEN "invalid"
    ELSE FsOpen(sub.files, Join(sub.dir, name))

\* http.FS(staticFS).Open(name): "/" opens ".", any other name is opened
\* without its leading slash.
HttpOpen(sub, name) ==
    IF name = <<"/">> THEN SubOpen(sub, <<".">>)
    ELSE SubOpen(sub, TrimPrefix(name, <<"/">>))

(***************************************************************************)
(* The response writer.  status 0: no status written yet.  A header that   *)
(* is not set is "" (Content-Type, X-Content-Type-Options) or <<>>         *)
(* (Cache-Control, Location).                                              *)
(***************************************************************************)
NoHeader ==
    [CacheControl |-> <<>>, ContentType |-> "", Location |-> <<>>,
     XContentTypeOptions |-> ""]

NewResponse == [status |-> 0, header |-> NoHeader, body |-> <<>>]

StatusOK == 200
StatusPartialContent == 206
StatusMovedPermanently == 301
StatusNotModified == 304
StatusNotFound == 404
StatusInternalServerError == 500

\* http.Error(w, error, code): plain-text content type, nosniff, the status
\* and the error text followed by a newline.
HttpError(w, text, code) ==
    [w EXCEPT !.status = code,
              !.header.ContentType = "text/plain; charset=utf-8",
              !.header.XContentTypeOptions = "nosniff",
              !.body = text \o <<"\n">>]

\* net/http's serveError, which the file server answers every failure
\* with: http.Error, after dropping the headers that describe the content
\* that is not being sent.  Go 1.23 introduced the dropping; older
\* toolchains and GODEBUG=httpservecontentkeepheaders=1 keep the headers.
ServeError(w, text, code, keepHeaders) ==
    HttpError(IF keepHeaders THEN w ELSE [w EXCEPT !.header.CacheControl = <<>>],
              text, code)

\* net/http's localRedirect: a Location header and status 301.
LocalRedirect(w, newPath) ==
    [w EXCEPT !.status = StatusMovedPermanently, !.header.Location = newPath]

\* mime.TypeByExtension for the extensions of the model's files: the
\* built-in table knows ".css" and ".html"; "" for any other extension.
TypeByExtension(ext) ==
    IF ext = <<".", "c", "s", "s">> THEN "text/css; charset=utf-8"
    ELSE IF ext = <<".", "h", "t", "m", "l">> THEN "text/html; charset=utf-8"
    ELSE ""

\* http.DetectContentType of the first bytes of a file: the model's files
\* hold plain text.
DetectContentType == "text/plain; charset=utf-8"

\* The bytes of the file called name.
Content(name) == <<"contents of ">> \o name

(***************************************************************************)
(* net/http's file server, which serveStaticFiles delegates to.  A request *)
(* is [Path, RawPath, Cond]: the decoded URL path, the raw path (empty     *)
(* unless the request line carried an escape the default encoding would    *)
(* not produce; an escape such as %73 is one element) and which            *)
(* conditional or range header it carries: "none", "IfModifiedSince" (a    *)
(* date not before the files' modification time) or "Range" (a             *)
(* satisfiable byte range).  Regular files carry a modification time;      *)
(* directories are synthesized, as in MapFS, without one.                  *)
(***************************************************************************)
IndexPage == <<"/", "i", "n", "d", "e", "x", ".", "h", "t", "m", "l">>

\* net/http's serveContent for the regular file called name: 304 without a
\* Content-Type for a request whose If-Modified-Since is satisfied;
\* otherwise the Content-Type is set from the extension, or sniffed from
\* the content when the extension is unknown, and the content is sent with
\* 200, or 206 for a range request.
ServeContent(w, name, cond) ==
    IF cond = "IfModifiedSince"
    THEN [w EXCEPT !.status = StatusNotModified, !.header.ContentType = ""]
    ELSE LET ctype == IF TypeByExtension(Ext(name)) # ""
                      THEN TypeByExtension(Ext(name))
                      ELSE DetectContentType
         IN  [w EXCEPT !.status = IF cond = "Range" THEN StatusPartialContent
                                  ELSE StatusOK,
                       !.header.ContentType = ctype,
                       !.body = Content(name)]

\* net/http's dirList: an HTML listing with status 200.
DirList(w, name) ==
    [w EXCEPT !.status = StatusOK,
              !.header.ContentType = "text/html; charset=utf-8",
              !.body = <<"<pre>">> \o name \o <<"</pre>">>]

\* net/http's serveFile(w, r, fs, name, redirect = true), r.URL.Path being
\* upath and name being path.Clean(upath).
ServeFile(w, sub, upath, name, cond, keepHeaders) ==
    LET opened == HttpOpen(sub, name)
        index == TrimSuffix(name, <<"/">>) \o IndexPage
    IN  IF HasSuffix(upath, IndexPage)
        THEN LocalRedirect(w, <<".", "/">>)
        ELSE IF opened = "notexist"
        THEN ServeError(w, <<"404 page not found">>, StatusNotFound, keepHeaders)
        ELSE IF opened = "invalid"
        THEN ServeError(w, <<"500 Internal Server Error">>,
                        StatusInternalServerError, keepHeaders)
        ELSE IF opened = "dir"
        THEN IF upath[Len(upath)] # "/"
             THEN LocalRedirect(w, Base(upath) \o <<"/">>)
             ELSE IF HttpOpen(sub, index) = "file"
             THEN ServeContent(w, index, cond)
             ELSE DirList(w, name)
        ELSE IF upath[Len(upath)] = "/"
             THEN LocalRedirect(w, <<".", ".", "/">> \o Base(upath))
             ELSE ServeContent(w, name, cond)

\* http.FileServer(http.FS(staticFS)).ServeHTTP: a path that does not start
\* with a slash gets one, and the cleaned path is served.
FileServer(w, sub, path, cond, keepHeaders) ==
    LET upath == IF HasPrefix(path, <<"/">>) THEN path ELSE <<"/">> \o path
    IN  ServeFile(w, sub, upath, Clean(upath), cond, keepHeaders)

\* Whether http.StripPrefix(prefix, h) hands the request to h: always for
\* the empty prefix; otherwise when the prefix can be removed from the path
\* and, if the request has a raw path, from the raw path too.
StripPrefixPasses(prefix, r) ==
    \/ prefix = <<>>
    \/ /\ Len(TrimPrefix(r.Path, prefix)) < Len(r.Path)
       /\ \/ r.RawPath = <<>>
          \/ Len(TrimPrefix(r.RawPath, prefix)) < Len(r.RawPath)

\* The request http.StripPrefix hands to h: the prefix removed from Path and
\* RawPath (the request itself for the empty prefix).
StripPrefix(prefix, r) ==
    IF prefix = <<>> THEN r
    ELSE [r EXCEPT !.Path = TrimPrefix(r.Path, prefix),
                   !.RawPath = TrimPrefix(r.RawPath, prefix)]

(***************************************************************************)
(* time.Duration and the formatting of the max-age value                   *)
(***************************************************************************)
\* time.Second, in nanoseconds.
Second == 1000000000

RECURSIVE Pow2(_)
Pow2(n) == IF n = 0 THEN 1 ELSE 2 * Pow2(n - 1)

\* The k with 2^k <= n < 2^(k+1), for n >= 1.
RECURSIVE Log2(_)
Log2(n) == IF n < 2 THEN 0 ELSE 1 + Log2(n \div 2)

\* d > 0 for the Duration d.
Positive(d) == d.sec > 0 \/ (d.sec = 0 /\ d.nsec > 0)

\* int(d.Seconds()) for d >= 0.  Seconds is
\* float64(sec) + float64(nsec)/1e9 in float64 arithmetic: a float64 around
\* sec has 52 - Log2(sec) fraction bits, so the sum rounds to sec + 1 when
\* the fraction is nearer to 1 than half a unit in the last place, which
\* happens from sec = 2^24 on; the conversion to int then truncates.
IntSeconds(d) ==
    IF /\ d.sec >= Pow2(24)
       /\ Second - d.nsec <= (Second - 1) \div Pow2(53 - Log2(d.sec))
    THEN d.sec + 1
    ELSE d.sec

\* The decimal digits of n >= 0, as the verb %d prints them.
RECURSIVE Digits(_)
Digits(n) ==
    LET digit == <<"0", "1", "2", "3", "4", "5", "6", "7", "8", "9">>
    IN  IF n < 10 THEN <<digit[n + 1]>>
        ELSE Digits(n \div 10) \o <<digit[(n % 10) + 1]>>

\* fmt.Sprintf("public, max-age=%d", int(d.Seconds()))
CacheControlValue(d) == <<"public, max-age=">> \o Digits(IntSeconds(d))

(***************************************************************************)
(* Config, StaticMiddleware and NewStaticMiddleware                        *)
(***************************************************************************)
\* A Logger is "nil", "custom" (supplied by the caller) or "default"
\* (log.New(os.Stdout, "DEBUG: ", log.LstdFlags)).

\* NewStaticMiddleware without the default logger: the configuration is
\* stored as given.
NewStaticMiddlewareNoDefault(cfg) == cfg

\* NewStaticMiddleware(config): the configuration the middleware stores.
NewStaticMiddleware(cfg) ==
    IF cfg.Debug /\ cfg.Logger = "nil"
    THEN [cfg EXCEPT !.Logger = "default"]
    ELSE cfg

(***************************************************************************)
(* The handling of one request.  A context holds the request, where its    *)
(* handling stands (pc), the response writer w, the sub-filesystem once    *)
(* computed, and what the handling did, in order (trace): the Printf calls *)
(* on the logger, the call of next, the Cache-Control header being set,    *)
(* the call of the file server, the 500 being written.  next and served    *)
(* hold the requests handed to the next handler and to the file server.    *)
(***************************************************************************)
NoRequest == [Path |-> <<>>, RawPath |-> <<>>, Cond |-> "none"]

NoSub == [ok |-> FALSE, files |-> {}, dir |-> <<>>, err |-> <<>>]

NewContext(r) ==
    [req |-> r, pc |-> "Handler", w |-> NewResponse, sub |-> NoSub,
     trace |-> <<>>, next |-> <<>>, served |-> <<>>]

Idle == [NewContext(NoRequest) EXCEPT !.pc = "idle"]

Event(ev) == [ev |-> ev, format |-> "", arg |-> <<>>]

\* m.config.Logger.Printf(format, arg): a call on a nil Logger panics, which
\* ends the handling of the request (net/http recovers it and drops the
\* connection).
Printf(cfg, c, format, arg) ==
    IF cfg.Logger = "nil"
    THEN [c EXCEPT !.pc = "panic", !.trace = Append(@, Event("panic"))]
    ELSE [c EXCEPT !.trace =
              Append(@, [ev |-> "Printf", format |-> format, arg |-> arg])]

\* s with its upper-case letters (those the model's paths have) lowered.
ToLower(s) == [k \in 1..Len(s) |-> IF s[k] = "S" THEN "s" ELSE s[k]]

\* The handler with a prefix test that ignores case.
HandlerStepFoldCase(cfg, c) ==
    LET matched == HasPrefix(ToLower(c.req.Path), ToLower(cfg.StaticFilePrefix))
        format == IF matched THEN "Serving static file: %s"
                  ELSE "Passing request to next handler: %s"
        logged == IF cfg.Debug THEN Printf(cfg, c, format, c.req.Path) ELSE c
    IN  IF logged.pc = "panic" THEN logged
        ELSE IF matched THEN [logged EXCEPT !.pc = "serveStaticFiles"]
        ELSE [logged EXCEPT !.pc = "done",
                            !.trace = Append(@, Event("next")),
                            !.next = Append(@, c.req)]

\* The handler printing its debug line for a path without the prefix after
\* the call of next instead of before it.
HandlerStepLogsAfter(cfg, c) ==
    LET matched == HasPrefix(c.req.Path, cfg.StaticFilePrefix)
        called == [c EXCEPT !.trace = Append(@, Event("next")),
                            !.next = Append(@, c.req)]
        logged == IF ~cfg.Debug THEN (IF matched THEN c ELSE called)
                  ELSE IF matched
                  THEN Printf(cfg, c, "Serving static file: %s", c.req.Path)
                  ELSE Printf(cfg, called, "Passing request to next handler: %s",
                              c.req.Path)
    IN  IF logged.pc = "panic" THEN logged
        ELSE IF matched THEN [logged EXCEPT !.pc = "serveStaticFiles"]
        ELSE [logged EXCEPT !.pc = "done"]

\* The handler Handler() returns, up to the call of serveStaticFiles or of
\* next: the prefix test, the debug line, and next.ServeHTTP(w, r) with the
\* request as it came for a path without the prefix.
HandlerStep(cfg, c) ==
    LET matched == HasPrefix(c.req.Path, cfg.StaticFilePrefix)
        format == IF matched THEN "Serving static file: %s"
                  ELSE "Passing request to next handler: %s"
        logged == IF cfg.Debug THEN Printf(cfg, c, format, c.req.Path) ELSE c
    IN  IF logged.pc = "panic" THEN logged
        ELSE IF matched THEN [logged EXCEPT !.pc = "serveStaticFiles"]
        ELSE [logged EXCEPT !.pc = "done",
                            !.trace = Append(@, Event("next")),
                            !.next = Append(@, c.req)]

\* serveStaticFiles without the return of the error branch: after the 500
\* the handling goes on to the header and the file server.
SubStepNoReturn(cfg, c) ==
    LET sub == Sub(cfg.StaticFS, cfg.StaticRoot)
        logged == IF cfg.Debug
                  THEN Printf(cfg, c, "Error creating sub-filesystem: %s", sub.err)
                  ELSE c
    IN  IF sub.ok THEN [c EXCEPT !.pc = "cacheControl", !.sub = sub]
        ELSE IF logged.pc = "panic" THEN logged
        ELSE [logged EXCEPT
                 !.pc = "cacheControl",
                 !.sub = sub,
                 !.trace = Append(@, Event("http.Error")),
                 !.w = HttpError(@, sub.err, StatusInternalServerError)]

\* serveStaticFiles setting the Cache-Control header first, before the
\* fs.Sub call: the header is on the response of the error branch too.
SubStepHeaderFirst(cfg, c) ==
    LET sub == Sub(cfg.StaticFS, cfg.StaticRoot)
        h == IF cfg.CacheDuration.sec > 0
                \/ (cfg.CacheDuration.sec = 0 /\ cfg.CacheDuration.nsec > 0)
             THEN [c EXCEPT
                      !.trace = Append(@, Event("Set Cache-Control")),
                      !.w.header.CacheControl =
                          <<"public, max-age=">> \o Digits(IntSeconds(cfg.CacheDuration))]
             ELSE c
        logged == IF cfg.Debug
                  THEN Printf(cfg, h, "Error creating sub-filesystem: %s", sub.err)
                  ELSE h
    IN  IF sub.ok THEN [c EXCEPT !.pc = "cacheControl", !.sub = sub]
        ELSE IF logged.pc = "panic" THEN logged
        ELSE [logged EXCEPT
                 !.pc = "done",
                 !.trace = Append(@, Event("http.Error")),
                 !.w = HttpError(@, sub.err, StatusInternalServerError)]

\* serveStaticFiles printing the error line whether or not Debug is set.
SubStepAlwaysLogs(cfg, c) ==
    LET sub == Sub(cfg.StaticFS, cfg.StaticRoot)
        logged == Printf(cfg, c, "Error creating sub-filesystem: %s", sub.err)
    IN  IF sub.ok THEN [c EXCEPT !.pc = "cacheControl", !.sub = sub]
        ELSE IF logged.pc = "panic" THEN logged
        ELSE [logged EXCEPT
                 !.pc = "done",
                 !.trace = Append(@, Event("http.Error")),
                 !.w = HttpError(@, sub.err, StatusInternalServerError)]

\* serveStaticFiles, the fs.Sub call and its error branch: the debug line,
\* then http.Error with the error's text and status 500, and return.
SubStep(cfg, c) ==
    LET sub == Sub(cfg.StaticFS, cfg.StaticRoot)
        logged == IF cfg.Debug
                  THEN Printf(cfg, c, "Error creating sub-filesystem: %s", sub.err)
                  ELSE c
    IN  IF sub.ok THEN [c EXCEPT !.pc = "cacheControl", !.sub = sub]
        ELSE IF logged.pc = "panic" THEN logged
        ELSE [logged EXCEPT
                 !.pc = "done",
                 !.trace = Append(@, Event("http.Error")),
                 !.w = HttpError(@, sub.err, StatusInternalServerError)]

\* serveStaticFiles setting the header only when the path without the prefix
\* opens as a regular file of the rooted file system.
CacheControlStepOnlyIfExists(cfg, c) ==
    IF /\ Positive(cfg.CacheDuration)
       /\ HttpOpen(c.sub, StripPrefix(cfg.StaticFilePrefix, c.req).Path) = "file"
    THEN [c EXCEPT
            !.pc = "fileServer",
            !.trace = Append(@, Event("Set Cache-Control")),
            !.w.header.CacheControl = CacheControlValue(cfg.CacheDuration)]
    ELSE [c EXCEPT !.pc = "fileServer"]

\* serveStaticFiles setting the header without the CacheDuration > 0 test.
CacheControlStepNoGuard(cfg, c) ==
    [c EXCEPT !.pc = "fileServer",
              !.trace = Append(@, Event("Set Cache-Control")),
              !.w.header.CacheControl =
                  IF Positive(cfg.CacheDuration)
                  THEN CacheControlValue(cfg.CacheDuration)
                  ELSE <<"public, max-age=", "0">>]

\* serveStaticFiles, the Cache-Control header.
CacheControlStep(cfg, c) ==
    IF Positive(cfg.CacheDuration)
    THEN [c EXCEPT !.pc = "fileServer",
                   !.trace = Append(@, Event("Set Cache-Control")),
                   !.w.header.CacheControl = CacheControlValue(cfg.CacheDuration)]
    ELSE [c EXCEPT !.pc = "fileServer"]

\* s without every leading occurrence of a non-empty prefix.
RECURSIVE TrimPrefixRepeated(_, _)
TrimPrefixRepeated(s, prefix) ==
    IF prefix # <<>> /\ HasPrefix(s, prefix)
    THEN TrimPrefixRepeated(TrimPrefix(s, prefix), prefix)
    ELSE s

\* serveStaticFiles removing the prefix as often as the path starts with it.
FileServerStepStripsRepeated(cfg, c, keepHeaders) ==
    IF StripPrefixPasses(cfg.StaticFilePrefix, c.req)
    THEN LET r2 == [c.req EXCEPT
                       !.Path = TrimPrefixRepeated(@, cfg.StaticFilePrefix),
                       !.RawPath = TrimPrefixRepeated(@, cfg.StaticFilePrefix)]
         IN  [c EXCEPT
                !.pc = "done",
                !.trace = Append(@, Event("fileServer")),
                !.served = Append(@, [dir |-> c.sub.dir, req |-> r2]),
                !.w = FileServer(@, c.sub, r2.Path, r2.Cond, keepHeaders)]
    ELSE [c EXCEPT
            !.pc = "done",
            !.trace = Append(@, Event("http.NotFound")),
            !.w = HttpError(@, <<"404 page not found">>, StatusNotFound)]

\* serveStaticFiles calling the file server without http.StripPrefix: the
\* file server gets the request's path as it came.
FileServerStepNoStrip(cfg, c, keepHeaders) ==
    [c EXCEPT
        !.pc = "done",
        !.trace = Append(@, Event("fileServer")),
        !.served = Append(@, [dir |-> c.sub.dir, req |-> c.req]),
        !.w = FileServer(@, c.sub, c.req.Path, c.req.Cond, keepHeaders)]

\* serveStaticFiles falling through to the next handler when the file
\* server has answered 404.
FileServerStepFallsThrough(cfg, c, keepHeaders) ==
    LET r2 == StripPrefix(cfg.StaticFilePrefix, c.req)
        w2 == IF StripPrefixPasses(cfg.StaticFilePrefix, c.req)
              THEN FileServer(c.w, c.sub, r2.Path, r2.Cond, keepHeaders)
              ELSE HttpError(c.w, <<"404 page not found">>, StatusNotFound)
    IN  IF w2.status = StatusNotFound
        THEN [c EXCEPT !.pc = "done",
                       !.trace = Append(@, Event("next")),
                       !.next = Append(@, c.req)]
        ELSE [c EXCEPT !.pc = "done",
                       !.trace = Append(@, Event("fileServer")),
                       !.served = Append(@, [dir |-> c.sub.dir, req |-> r2]),
                       !.w = w2]

\* serveStaticFiles, http.StripPrefix(prefix, fileServer).ServeHTTP(w, r):
\* the file server gets the request without the prefix; a request the
\* prefix cannot be removed from is answered by http.NotFound.
FileServerStep(cfg, c, keepHeaders) ==
    IF StripPrefixPasses(cfg.StaticFilePrefix, c.req)
    THEN LET r2 == StripPrefix(cfg.StaticFilePrefix, c.req)
         IN  [c EXCEPT
                !.pc = "done",
                !.trace = Append(@, Event("fileServer")),
                !.served = Append(@, [dir |-> c.sub.dir, req |-> r2]),
                !.w = FileServer(@, c.sub, r2.Path, r2.Cond, keepHeaders)]
    ELSE [c EXCEPT
            !.pc = "done",
            !.trace = Append(@, Event("http.NotFound")),
            !.w = HttpError(@, <<"404 page not found">>, StatusNotFound)]

\* One step of the handling of a request.
Step(cfg, c, keepHeaders) ==
    CASE c.pc = "Handler" -> HandlerStep(cfg, c)
      [] c.pc = "serveStaticFiles" -> SubStep(cfg, c)
      [] c.pc = "cacheControl" -> CacheControlStep(cfg, c)
      [] c.pc = "fileServer" -> FileServerStep(cfg, c, keepHeaders)
      [] OTHER -> c

Finished(c) == c.pc \in {"done", "panic"}

\* The handling of a request from start to end, nothing else running.
RECURSIVE Run(_, _, _)
Run(cfg, c, keepHeaders) ==
    IF Finished(c) \/ c.pc = "idle" THEN c
    ELSE Run(cfg, Step(cfg, c, keepHeaders), keepHeaders)

\* The Printf calls in a trace.
RECURSIVE PrintfCount(_)
PrintfCount(trace) ==
    IF trace = <<>> THEN 0
    ELSE (IF trace[1].ev = "Printf" THEN 1 ELSE 0) + PrintfCount(Tail(trace))

(***************************************************************************)
(* The configurations and requests of the model                            *)
(***************************************************************************)
Static == <<"s", "t", "a", "t", "i", "c">>
TestfileCss == <<"t", "e", "s", "t", "f", "i", "l", "e", ".", "c", "s", "s">>
TestfileTxt == <<"t", "e", "s", "t", "f", "i", "l", "e", ".", "t", "x", "t">>
Foo == <<"f", "o", "o">>
Docs == <<"d", "o", "c", "s">>
Img == <<"i", "m", "g">>
Slash == <<"/">>

\* The file system of the repository's tests: static/testfile.css.
MockFS == {Static \o Slash \o TestfileCss}

\* A site: files under static/ (one without an extension, a directory with
\* an index.html, a directory without) and a file at the top.
SiteFS ==
    {Static \o Slash \o TestfileCss,
     Static \o Slash \o Foo,
     Static \o Slash \o Docs \o IndexPage,
     Static \o Slash \o Img \o Slash \o TestfileCss,
     TestfileCss}

FileSystems == {MockFS, SiteFS}

\* "static" and "./static" (the tests), "" (the README's root) and ".".
Roots == {Static, <<".", "/">> \o Static, <<>>, <<".">>}

\* "/static" (the tests and the README), "/static/" and the empty prefix.
Prefixes == {Slash \o Static, Slash \o Static \o Slash, <<>>}

Dur(sec, nsec) == [sec |-> sec, nsec |-> nsec]

\* 0 (unset), 24 h (the README), 0.5 s, 1.5 s, -1 s, and
\* 16777216.999999999 s.
Durations ==
    {Dur(0, 0), Dur(86400, 0), Dur(0, 500000000), Dur(1, 500000000),
     Dur(-1, 0), Dur(16777216, 999999999)}

Configs ==
    [StaticFS : FileSystems, StaticRoot : Roots, StaticFilePrefix : Prefixes,
     CacheDuration : Durations, Debug : BOOLEAN, Logger : {"nil", "custom"}]

Get(path) == [Path |-> path, RawPath |-> <<>>, Cond |-> "none"]

Paths ==
    {Slash \o Static \o Slash \o TestfileCss,
     Slash \o Static \o Slash \o TestfileTxt,
     <<"/", "n", "o", "n", "e", "x", "i", "s", "t", "e", "n", "t">>,
     Slash \o Static,
     Slash \o Static \o Slash,
     Slash \o Static \o Foo,
     Slash \o Static \o Slash \o Foo,
     Slash \o Static \o Slash \o Docs,
     Slash \o Static \o Slash \o Docs \o Slash,
     Slash \o Static \o Slash \o Docs \o IndexPage,
     Slash \o Static \o IndexPage,
     Slash \o Static \o Slash \o Static,
     Slash \o Static \o Slash \o Img \o Slash,
     Slash \o Static \o Slash \o TestfileCss \o Slash,
     <<"/", "S">> \o Tail(Static) \o Slash \o TestfileCss,
     Slash \o TestfileCss}

\* GET requests for the paths; conditional and range requests for
\* /static/testfile.css; and /%73tatic/testfile.css, whose path decodes to
\* /static/testfile.css and whose raw path keeps the escape.
Requests ==
    {Get(p) : p \in Paths}
    \cup {[Get(Slash \o Static \o Slash \o TestfileCss) EXCEPT !.Cond = c] :
             c \in {"IfModifiedSince", "Range"}}
    \cup {[Get(Slash \o Static \o Slash \o TestfileCss) EXCEPT
              !.RawPath = <<"/", "%73">> \o Tail(Static) \o Slash \o TestfileCss]}

(***************************************************************************)
(* State                                                                   *)
(***************************************************************************)
VARIABLES
    cfgIn,        \* the Config handed to NewStaticMiddleware
    config,       \* StaticMiddleware.config
    keepHeaders,  \* the build: net/http keeps the content headers on errors
    inflight,     \* the context of each request being handled, or Idle
    printfCalls,  \* the calls of Logger.Printf so far
    handled       \* the requests accepted so far

vars == <<cfgIn, config, keepHeaders, inflight, printfCalls, handled>>

ReqIds == 1..NumReq

Init ==
    /\ cfgIn \in Configs
    /\ config = NewStaticMiddleware(cfgIn)
    /\ keepHeaders \in BOOLEAN
    /\ inflight = [i \in ReqIds |-> Idle]
    /\ printfCalls = 0
    /\ handled = 0

\* A handler that replaces a root of the form ./dir in m.config by dir, the
\* form fs.Sub accepts, once a request has been handled.
StoredConfigCleansRoot(cfg, c) ==
    IF HasPrefix(cfg.StaticRoot, <<".", "/">>)
    THEN [cfg EXCEPT !.StaticRoot = TrimPrefix(@, <<".", "/">>)]
    ELSE cfg

\* A handler that, having set the Cache-Control header once, clears
\* m.config.CacheDuration.
StoredConfigClearsCache(cfg, c) ==
    IF c.pc = "fileServer" THEN [cfg EXCEPT !.CacheDuration = Dur(0, 0)] ELSE cfg

\* m.config after a step that took a request's handling to the context c:
\* the handlers read m.config and never assign it.
StoredConfig(cfg, c) == cfg

\* The server handles the request r from start to end (one request at a
\* time, as the repository's tests do).
ServeHTTP(r) ==
    /\ handled < MaxRequests
    /\ LET c == Run(config, NewContext(r), keepHeaders)
       IN  /\ inflight' = [inflight EXCEPT ![1] = c]
           /\ printfCalls' = printfCalls + PrintfCount(c.trace)
           /\ config' = StoredConfig(config, c)
    /\ handled' = handled + 1
    /\ UNCHANGED <<cfgIn, keepHeaders>>

Next == \E r \in Requests : ServeHTTP(r)

Spec == Init /\ [][Next]_vars

(***************************************************************************)
(* Concurrent requests: net/http runs each request's handler on its own    *)
(* goroutine, so the steps of the requests in flight interleave, each step *)
(* reading m.config when it runs.                                          *)
(***************************************************************************)
ConcConfigs ==
    [StaticFS : {SiteFS}, StaticRoot : {Static, <<".", "/">> \o Static},
     StaticFilePrefix : {Slash \o Static},
     CacheDuration : {Dur(0, 0), Dur(86400, 0)},
     Debug : BOOLEAN, Logger : {"nil", "custom"}]

ConcRequests ==
    {Get(Slash \o Static \o Slash \o TestfileCss),
     Get(Slash \o Static \o Slash \o TestfileTxt),
     Get(Slash \o Static \o Slash \o Docs),
     Get(<<"/", "n", "o", "n", "e", "x", "i", "s", "t", "e", "n", "t">>)}

InitConc ==
    /\ cfgIn \in ConcConfigs
    /\ config = NewStaticMiddleware(cfgIn)
    /\ keepHeaders \in BOOLEAN
    /\ inflight = [i \in ReqIds |-> Idle]
    /\ printfCalls = 0
    /\ handled = 0

\* The server accepts the request r and starts its handler on goroutine i.
Accept(i, r) ==
    /\ inflight[i] = Idle
    /\ inflight' = [inflight EXCEPT ![i] = NewContext(r)]
    /\ handled' = handled + 1
    /\ UNCHANGED <<cfgIn, config, keepHeaders, printfCalls>>

\* Goroutine i runs the handler up to serveStaticFiles or through next.
Dispatch(i) ==
    /\ inflight[i].pc = "Handler"
    /\ LET c == HandlerStep(config, inflight[i])
       IN  /\ inflight' = [inflight EXCEPT ![i] = c]
           /\ printfCalls' =
                  printfCalls + PrintfCount(c.trace) - PrintfCount(inflight[i].trace)
           /\ config' = StoredConfig(config, c)
    /\ UNCHANGED <<cfgIn, keepHeaders, handled>>

\* Goroutine i calls fs.Sub, and answers 500 if it fails.
ServeStaticFiles(i) ==
    /\ inflight[i].pc = "serveStaticFiles"
    /\ LET c == SubStep(config, inflight[i])
       IN  /\ inflight' = [inflight EXCEPT ![i] = c]
           /\ printfCalls' =
                  printfCalls + PrintfCount(c.trace) - PrintfCount(inflight[i].trace)
           /\ config' = StoredConfig(config, c)
    /\ UNCHANGED <<cfgIn, keepHeaders, handled>>

\* Goroutine i sets the Cache-Control header, if configured.
SetCacheControl(i) ==
    /\ inflight[i].pc = "cacheControl"
    /\ LET c == CacheControlStep(config, inflight[i])
       IN  /\ inflight' = [inflight EXCEPT ![i] = c]
           /\ printfCalls' =
                  printfCalls + PrintfCount(c.trace) - PrintfCount(inflight[i].trace)
           /\ config' = StoredConfig(config, c)
    /\ UNCHANGED <<cfgIn, keepHeaders, handled>>

\* Goroutine i calls the file server through http.StripPrefix.
CallFileServer(i) ==
    /\ inflight[i].pc = "fileServer"
    /\ LET c == FileServerStep(config, inflight[i], keepHeaders)
       IN  /\ inflight' = [inflight EXCEPT ![i] = c]
           /\ printfCalls' =
                  printfCalls + PrintfCount(c.trace) - PrintfCount(inflight[i].trace)
           /\ config' = StoredConfig(config, c)
    /\ UNCHANGED <<cfgIn, keepHeaders, handled>>

NextConc ==
    \E i \in ReqIds :
        \/ \E r \in ConcRequests : Accept(i, r)
        \/ Dispatch(i)
        \/ ServeStaticFiles(i)
        \/ SetCacheControl(i)
        \/ CallFileServer(i)

SpecConc == InitConc /\ [][NextConc]_vars

(***************************************************************************)
(* The variant that computes the rooted sub-filesystem once, at            *)
(* construction, and reuses it (a rooting failure included) for every      *)
(* request, beside the handler of the source, which calls fs.Sub for each  *)
(* request: goroutine 1 runs the source's handler and goroutine 2 the      *)
(* variant's, on the same requests.                                        *)
(***************************************************************************)
\* What fs.Sub returned at construction, for the Config given then.
CachedSub == Sub(NewStaticMiddleware(cfgIn).StaticFS,
                 NewStaticMiddleware(cfgIn).StaticRoot)

\* serveStaticFiles of the variant: the cached result instead of the fs.Sub
\* call, then the error branch as in the source.
SubStepCached(cfg, c, cached) ==
    LET logged == IF cfg.Debug
                  THEN Printf(cfg, c, "Error creating sub-filesystem: %s", cached.err)
                  ELSE c
    IN  IF cached.ok THEN [c EXCEPT !.pc = "cacheControl", !.sub = cached]
        ELSE IF logged.pc = "panic" THEN logged
        ELSE [logged EXCEPT
                 !.pc = "done",
                 !.trace = Append(@, Event("http.Error")),
                 !.w = HttpError(@, cached.err, StatusInternalServerError)]

\* The variant's handling of a request from start to end.
RECURSIVE RunCached(_, _, _, _)
RunCached(cfg, c, cached, keep) ==
    IF Finished(c) \/ c.pc = "idle" THEN c
    ELSE IF c.pc = "serveStaticFiles"
    THEN RunCached(cfg, SubStepCached(cfg, c, cached), cached, keep)
    ELSE RunCached(cfg, Step(cfg, c, keep), cached, keep)

\* The request r is handled by the source's handler and by the variant's.
ServeBoth(r) ==
    /\ handled < MaxRequests
    /\ LET c == Run(config, NewContext(r), keepHeaders)
           v == RunCached(config, NewContext(r), CachedSub, keepHeaders)
       IN  /\ inflight' = [inflight EXCEPT ![1] = c, ![2] = v]
           /\ printfCalls' = printfCalls + PrintfCount(c.trace)
           /\ config' = StoredConfig(config, c)
    /\ handled' = handled + 1
    /\ UNCHANGED <<cfgIn, keepHeaders>>

NextCached == \E r \in Requests : ServeBoth(r)

SpecCached == Init /\ [][NextCached]_vars

(***************************************************************************)
(* Properties.  They speak of the requests whose handling has ended, and   *)
(* state the prefix test, file resolution and the expected values in their *)
(* own terms.                                                              *)
(***************************************************************************)
\* s starts with p, element by element.
StartsWith(s, p) ==
    /\ Len(p) <= Len(s)
    /\ \A k \in 1..Len(p) : s[k] = p[k]

\* s ends with p, element by element.
EndsWith(s, p) ==
    /\ Len(p) <= Len(s)
    /\ \A k \in 1..Len(p) : s[Len(s) - Len(p) + k] = p[k]

\* s without its first n elements.
Drop(s, n) == [k \in 1..(Len(s) - n) |-> s[k + n]]

\* The request's path starts with the configured prefix.
Matched(c) == StartsWith(c.req.Path, config.StaticFilePrefix)

\* The request's path without the configured prefix and without the slash
\* that then leads it: the name the request asks for under the root.
Asked(c) ==
    LET rest == Drop(c.req.Path, Len(config.StaticFilePrefix))
    IN  IF rest # <<>> /\ rest[1] = "/" THEN Drop(rest, 1) ELSE rest

\* The name under the file system's top of the name n under the root.
UnderRoot(n) ==
    IF config.StaticRoot = <<".">> THEN n
    ELSE IF n = <<>> THEN config.StaticRoot
    ELSE config.StaticRoot \o <<"/">> \o n

\* The root is one fs.Sub accepts.
RootValid == ValidPath(config.StaticRoot)

\* The request asks for an existing regular file under the root.
AsksForFile(c) ==
    /\ Matched(c)
    /\ RootValid
    /\ UnderRoot(Asked(c)) \in config.StaticFS

\* The request asks for a name that is neither a file nor a directory under
\* the root.
AsksForNothing(c) ==
    /\ Matched(c)
    /\ RootValid
    /\ Asked(c) # <<>>
    /\ Asked(c)[Len(Asked(c))] # "/"
    /\ \A f \in config.StaticFS :
          /\ f # UnderRoot(Asked(c))
          /\ ~StartsWith(f, UnderRoot(Asked(c)) \o <<"/">>)

\* The MIME type of the extension of a file name: ".css" and ".html" are
\* registered, the model's other files have no registered extension.
MimeOfExtension(n) ==
    IF EndsWith(n, <<".", "c", "s", "s">>) THEN "text/css; charset=utf-8"
    ELSE IF EndsWith(n, <<".", "h", "t", "m", "l">>)
    THEN "text/html; charset=utf-8"
    ELSE ""

\* The number a sequence of decimal digits denotes.
RECURSIVE Number(_)
Number(ds) ==
    IF ds = <<>> THEN 0
    ELSE 10 * Number(SubSeq(ds, 1, Len(ds) - 1))
         + (CHOOSE n \in 0..9 :
               <<"0", "1", "2", "3", "4", "5", "6", "7", "8", "9">>[n + 1]
                   = ds[Len(ds)])

\* C1: a request whose path does not start with the configured prefix
\* (element by element, case-sensitive, nothing normalized) is handed to
\* the next handler exactly once, as it came, and the middleware writes no
\* status, no header and no body and does not call the file server.
C1_NonMatchedGoesToNext ==
    \A i \in ReqIds :
        (Finished(inflight[i]) /\ ~Matched(inflight[i]))
            => /\ inflight[i].pc = "done"
               /\ inflight[i].next = <<inflight[i].req>>
               /\ inflight[i].w = NewResponse
               /\ inflight[i].served = <<>>

\* C1 witness: /Static/testfile.css, which differs from the prefix /static
\* only in case, has gone to the next handler.
C1_Witness ==
    /\ config.StaticFilePrefix = Slash \o Static
    /\ inflight[1].pc = "done"
    /\ inflight[1].req.Path = <<"/", "S">> \o Tail(Static) \o Slash \o TestfileCss
    /\ inflight[1].next = <<inflight[1].req>>

\* A request without conditional or range header whose raw path, if it has
\* one, starts with the prefix as its path does.
PlainRequest(c) ==
    /\ c.req.Cond = "none"
    /\ c.req.RawPath = <<>> \/ StartsWith(c.req.RawPath, config.StaticFilePrefix)

Successful(c) ==
    /\ c.pc = "done"
    /\ c.served # <<>>
    /\ c.w.status = StatusOK

\* The digits after "public, max-age=" in a Cache-Control value.
MaxAgeDigits(value) == Drop(value, 1)

C5_InvalidRootIs500 ==
    \A i \in ReqIds :
        (Finished(inflight[i]) /\ Matched(inflight[i]) /\ ~RootValid)
            => /\ inflight[i].pc = "done"
               /\ inflight[i].w.status = StatusInternalServerError
               /\ inflight[i].w.body =
                      <<"sub ">> \o config.StaticRoot
                          \o <<": invalid argument", "\n">>
               /\ Len(inflight[i].w.body) > 0
               /\ inflight[i].next = <<>>
               /\ inflight[i].served = <<>>

\* C5 witness: the tests' case, root ./static and /static/testfile.css
\* (which exists under static), answered with 500.
C5_Witness ==
    /\ config.StaticRoot = <<".", "/">> \o Static
    /\ config.StaticFilePrefix = Slash \o Static
    /\ inflight[1].pc = "done"
    /\ inflight[1].req = Get(Slash \o Static \o Slash \o TestfileCss)
    /\ inflight[1].w.status = StatusInternalServerError

\* C6 as claimed: with the root "" and the prefix /static, a request for
\* /static/<file>, <file> being at the top of the file system, is served
\* with status 200.
C6_EmptyRootServes ==
    \A i \in ReqIds :
        (/\ inflight[i].pc = "done"
         /\ config.StaticRoot = <<>>
         /\ config.StaticFilePrefix = Slash \o Static
         /\ TestfileCss \in config.StaticFS
         /\ inflight[i].req = Get(Slash \o Static \o Slash \o TestfileCss))
            => inflight[i].w.status = StatusOK

\* C7: construction installs a default logger exactly when Debug is set
\* and no Logger was supplied, so that Debug implies a Logger; a supplied
\* Logger is kept, and so are the Debug flag, a nil Logger without Debug,
\* and every other field.
C7_LoggerNormalized ==
    /\ config.Debug => config.Logger # "nil"
    /\ cfgIn.Logger # "nil" => config.Logger = cfgIn.Logger
    /\ ~cfgIn.Debug => config.Logger = cfgIn.Logger
    /\ (cfgIn.Debug /\ cfgIn.Logger = "nil") => config.Logger = "default"
    /\ config.Debug = cfgIn.Debug
    /\ [config EXCEPT !.Logger = cfgIn.Logger] = cfgIn

\* C7 witness: Debug without a Logger was given, the default logger is
\* installed, and a request has been handled with it.
C7_Witness ==
    /\ cfgIn.Debug
    /\ cfgIn.Logger = "nil"
    /\ config.Logger = "default"
    /\ inflight[1].pc = "done"
    /\ printfCalls > 0

\* C8: without Debug the logger is never called, whatever the requests and
\* whether or not a Logger was supplied, and so a nil Logger is never
\* dereferenced.
C8_NoLoggingWithoutDebug ==
    ~config.Debug
        => /\ printfCalls = 0
           /\ \A i \in ReqIds :
                 /\ inflight[i].pc # "panic"
                 /\ \A k \in 1..Len(inflight[i].trace) :
                       inflight[i].trace[k].ev \notin {"Printf", "panic"}

\* C8 witness: without Debug and with a nil Logger, all the requests of a
\* run have been handled, the last one ending in the rooting failure's 500.
C8_Witness ==
    /\ ~config.Debug
    /\ config.Logger = "nil"
    /\ handled = MaxRequests
    /\ inflight[1].pc = "done"
    /\ inflight[1].w.status = StatusInternalServerError
    /\ printfCalls = 0

\* The positions of the dispatch lines in a trace.
DispatchLines(trace) ==
    {k \in 1..Len(trace) :
        /\ trace[k].ev = "Printf"
        /\ trace[k].format \in {"Serving static file: %s",
                                "Passing request to next handler: %s"}}

\* C9: with Debug, the first thing the handling of a request does is to
\* print one dispatch line with the request's path, "Serving static file"
\* for a path with the prefix and "Passing request to next handler"
\* otherwise, and it prints no other dispatch line; on a rooting failure
\* it then prints one error line and then writes the 500; otherwise it
\* prints nothing more.
C9_DebugLines ==
    \A i \in ReqIds :
        LET c == inflight[i]
        IN  (config.Debug /\ Finished(c))
                => /\ c.trace # <<>>
                   /\ c.trace[1] =
                          [ev |-> "Printf",
                           format |-> IF Matched(c)
                                      THEN "Serving static file: %s"
                                      ELSE "Passing request to next handler: %s",
                           arg |-> c.req.Path]
                   /\ DispatchLines(c.trace) = {1}
                   /\ IF Matched(c) /\ ~RootValid
                      THEN /\ Len(c.trace) = 3
                           /\ c.trace[2].ev = "Printf"
                           /\ c.trace[2].format = "Error creating sub-filesystem: %s"
                           /\ c.trace[3].ev = "http.Error"
                           /\ c.w.status = StatusInternalServerError
                      ELSE /\ \A k \in 2..Len(c.trace) : c.trace[k].ev # "Printf"
                           /\ Len(c.trace) >= 2
                           /\ c.trace[Len(c.trace)].ev \in
                                  {"next", "fileServer", "http.NotFound"}
                           /\ c.trace[Len(c.trace)].ev = "next" <=> ~Matched(c)

\* C9 witness: with Debug, a rooting failure has left the dispatch line,
\* the error line and the 500, in this order.
C9_Witness ==
    /\ config.Debug
    /\ inflight[1].pc = "done"
    /\ Len(inflight[1].trace) = 3
    /\ inflight[1].trace[2].format = "Error creating sub-filesystem: %s"
    /\ inflight[1].trace[3].ev = "http.Error"

\* C10: handling requests never changes the stored configuration, and
\* however the steps of concurrent requests interleave, each request ends
\* as it would have ended had it been handled alone.
C10_Stateless ==
    /\ config = NewStaticMiddleware(cfgIn)
    /\ \A i \in ReqIds :
          Finished(inflight[i])
              => inflight[i] = Run(NewStaticMiddleware(cfgIn),
                                   NewContext(inflight[i].req), keepHeaders)

\* C10 witness: a request has been served with 200 and Cache-Control while
\* the handling of another one stands between fs.Sub and the header.
C10_Witness ==
    /\ Successful(inflight[1])
    /\ inflight[1].w.header.CacheControl # <<>>
    /\ inflight[2].pc = "cacheControl"

ServedStripped(c) ==
    /\ Len(c.served) = 1
    /\ c.served[1].dir = config.StaticRoot
    /\ c.served[1].req.Path = Drop(c.req.Path, Len(config.StaticFilePrefix))
    /\ c.served[1].req.Cond = c.req.Cond

\* C12 as claimed: for every request with the prefix whose rooting
\* succeeds, the file server is called exactly once, rooted at the
\* configured root, with the request's path less one leading prefix.
C12_Original ==
    \A i \in ReqIds :
        (Finished(inflight[i]) /\ Matched(inflight[i]) /\ RootValid)
            => ServedStripped(inflight[i])

\* C12 as amended: for every request with the prefix whose rooting
\* succeeds and whose raw path, if the URL has one, starts with the prefix
\* too, the file server is called exactly once, rooted at the configured
\* root, with the request's path less one leading prefix; a request whose
\* raw path lacks the prefix is answered 404 by http.StripPrefix and the
\* file server is not called.
C12_FileServerCalledOnce ==
    \A i \in ReqIds :
        (Finished(inflight[i]) /\ Matched(inflight[i]) /\ RootValid)
            => IF \/ inflight[i].req.RawPath = <<>>
                  \/ StartsWith(inflight[i].req.RawPath, config.StaticFilePrefix)
               THEN ServedStripped(inflight[i])
               ELSE /\ inflight[i].served = <<>>
                    /\ inflight[i].w.status = StatusNotFound

\* C12 witness: /static/static under the prefix /static has reached the
\* file server once, as /static.
C12_Witness ==
    /\ config.StaticFilePrefix = Slash \o Static
    /\ RootValid
    /\ inflight[1].pc = "done"
    /\ inflight[1].req = Get(Slash \o Static \o Slash \o Static)
    /\ Len(inflight[1].served) = 1
    /\ inflight[1].served[1].req.Path = Slash \o Static

\* The places of the event ev in the trace of a request.
Events(c, ev) == {k \in 1..Len(c.trace) : c.trace[k].ev = ev}

\* C13: with a root that fs.Sub rejects, a request with the prefix ends at
\* the 500 of http.Error: the file server and http.StripPrefix are never
\* reached, the Cache-Control header is never set and is not on the
\* response, whatever the CacheDuration, and nothing follows the http.Error
\* call.
C13_RootingFailureEndsRequest ==
    \A i \in ReqIds :
        LET c == inflight[i]
        IN  (c.pc = "done" /\ Matched(c) /\ ~RootValid)
                => /\ c.w.status = StatusInternalServerError
                   /\ c.served = <<>>
                   /\ Events(c, "fileServer") = {}
                   /\ Events(c, "http.NotFound") = {}
                   /\ Events(c, "Set Cache-Control") = {}
                   /\ c.w.header.CacheControl = <<>>
                   /\ Events(c, "http.Error") = {Len(c.trace)}

\* C13 witness: with the README's 24 hours and the root "./static", the
\* request for /static/testfile.css has ended with the 500 and no
\* Cache-Control header.
C13_Witness ==
    /\ config.CacheDuration = Dur(86400, 0)
    /\ config.StaticRoot = <<".", "/">> \o Static
    /\ inflight[1].pc = "done"
    /\ inflight[1].req = Get(Slash \o Static \o Slash \o TestfileCss)
    /\ inflight[1].w.status = StatusInternalServerError
    /\ inflight[1].w.header.CacheControl = <<>>
    /\ inflight[1].served = <<>>

\* C14: with a positive CacheDuration and a root fs.Sub accepts, every
\* request with the prefix has the Cache-Control header set exactly once,
\* before the file server (or the 404 of http.StripPrefix) is reached,
\* whether or not the path names anything under the root.  What the
\* response then carries is the answerer's doing: the header is on every
\* response but the error responses of a file server that drops it
\* (net/http from Go 1.23 on, without httpservecontentkeepheaders=1).
C14_HeaderSetBeforeFileServer ==
    \A i \in ReqIds :
        LET c == inflight[i]
        IN  (c.pc = "done" /\ Matched(c) /\ RootValid
                /\ Positive(config.CacheDuration))
                => /\ Cardinality(Events(c, "Set Cache-Control")) = 1
                   /\ Cardinality(Events(c, "fileServer")
                                  \cup Events(c, "http.NotFound")) = 1
                   /\ \A k \in Events(c, "Set Cache-Control") :
                         \A j \in Events(c, "fileServer")
                                  \cup Events(c, "http.NotFound") : k < j
                   /\ c.w.header.CacheControl =
                         IF /\ c.served # <<>>
                            /\ c.w.status >= 400
                            /\ ~keepHeaders
                         THEN <<>>
                         ELSE CacheControlValue(config.CacheDuration)

\* C14 witness: with the README's 24 hours, the request for the absent
\* /static/testfile.txt had the header set before the file server was
\* called, and the file server answered 404 and kept the header.
C14_Witness ==
    /\ config.CacheDuration = Dur(86400, 0)
    /\ keepHeaders
    /\ inflight[1].pc = "done"
    /\ inflight[1].req = Get(Slash \o Static \o Slash \o TestfileTxt)
    /\ AsksForNothing(inflight[1])
    /\ inflight[1].w.status = StatusNotFound
    /\ \E k \in Events(inflight[1], "Set Cache-Control") :
          \E j \in Events(inflight[1], "fileServer") : k < j
    /\ inflight[1].w.header.CacheControl
           = <<"public, max-age=", "8", "6", "4", "0", "0">>

\* C15 as claimed: the max-age value is the CacheDuration truncated to
\* whole seconds: a successful file response carries "public, max-age="
\* and the digits of the duration's whole seconds (0 for a positive
\* duration of less than a second) when the duration is positive, and no
\* Cache-Control header when it is zero or negative.
C15_MaxAgeTruncates ==
    \A i \in ReqIds :
        LET c == inflight[i]
            d == config.CacheDuration
        IN  Successful(c)
                => c.w.header.CacheControl =
                       IF d.sec > 0 \/ (d.sec = 0 /\ d.nsec > 0)
                       THEN <<"public, max-age=">> \o Digits(d.sec)
                       ELSE <<>>
====
